---- MODULE Spec2Model ----
(***************************************************************************)
(* A model of comp-graf/Hierarchy/Hierarchy.js: the matrix Stack, the      *)
(* joint model of the turbine, the key handler, rotate(), draw() and the   *)
(* animation loop.                                                         *)
(*                                                                         *)
(* Matrix4 (cuon-matrix) values are kept symbolically: a matrix is the     *)
(* sequence of the elementary factors (translations, rotations, scalings)  *)
(* whose ordered product it is; factors that are the identity matrix       *)
(* (a translation by 0, a rotation by 0 degrees, about any axis) are       *)
(* dropped, so two matrices are equal in the model exactly when they are   *)
(* built from the same non-trivial factors in the same order.  Scale       *)
(* factors are written in tenths (1.1 is 11, 0.9 is 9, 1.2 is 12).         *)
(*                                                                         *)
(* JavaScript runs every handler to completion.  A handler is therefore    *)
(* one dispatch step (its own statements up to the call of draw()) and     *)
(* then the statements of draw(), one per step, during which no other      *)
(* handler is enabled (pc # 0).                                            *)
(***************************************************************************)
EXTENDS Integers, Sequences, FiniteSets, TLC

\* ------------------------------------------------------------------ bounds
MaxJoint == 1      \* turbine and generator angles stay within MaxJoint key steps of 0
MaxRotor == 3      \* |joint.rotor| <= MaxRotor
MaxSpeed == 3      \* rotSpeed <= MaxSpeed
MaxPresses == 4    \* scale harness: presses of ArrowUp/ArrowDown in all
MaxTilt == 1       \* SkyBox: rotX and rotY stay within MaxTilt key steps of 0
MaxScale == 1      \* at most MaxScale presses of ArrowUp/ArrowDown in all
MaxOps == 5        \* calls made on the Stack by the stack harness
MaxDepth == 3      \* depth of the Stack in the stack harness
MaxAdj == 6        \* |n| of changeRotSpeed(n) in the speed harness
MaxPureSpeed == 12 \* rotSpeed in the speed harness

\* ------------------------------------------------------ program constants
AngleStep == 15    \* joint.turbine += 15
SpeedFloor == 1    \* if (rotSpeed + n < 1) rotSpeed = 1
ScaleUp == 11      \* scaleMoinho(1.1), in tenths
ScaleDown == 9     \* scaleMoinho(0.9), in tenths

VARIABLES
  joint,                \* joint angles (var joint)
  rotDir, rotSpeed, rotAnim,
  turbineMatrix, baseMatrix, generatorMatrix, rotorMatrix, bladeMatrix,
  turbineMatrixLocal, baseMatrixLocal, generatorMatrixLocal,
  rotorMatrixLocal, bladeMatrixLocal,
  s,                    \* the Stack of the running draw() (NoStack outside)
  warnings,             \* what console.log has reported (warnings only)
  frame,                \* the cubes submitted to gl.drawArrays since gl.clear
  pc,                   \* 0: no handler runs; i > 0: draw() is at DrawProg[i]
  caller,               \* who called the running draw(): "animate", "key"
  listening,            \* the keydown listener is registered (load has run)
  pending,              \* animation-frame callbacks requested and not yet run
  ev,                   \* the event being dispatched (history)
  nRotate,              \* calls of rotate() since the last draw() began (history)
  nPush, nPop,          \* calls of push / pop on s since it was created (history)
  lastOp, ret,          \* stack harness: the last call and what it returned
  prevS, prevWarnings,  \* stack harness: s and warnings before the last call
  live,                 \* stack harness: elements pushed and not yet popped
  underflowed,          \* stack harness: some call found nothing to return
  nCalls,               \* stack harness: calls made so far
  argN, prevSpeed,      \* speed harness: the last n, and rotSpeed before it
  ang, direction,       \* RotatingSquare2: rotation angle and its direction
  cindex, click,        \* RotatingSquare2: pivot vertex, and a key was handled
  moved,                \* RotatingSquare2: a frame has applied a key's pivot (history)
  sqKey,                \* RotatingSquare2: the key handled since the last frame (history)
  nUp, nDown,           \* scale harness: presses of ArrowUp / ArrowDown (history)
  skState,              \* SkyBox: "unloaded", then "ready" or "failed" after init
  loadedImgs, ct,       \* SkyBox: face images whose onload has run, and the count
  texID,                \* SkyBox: the cubemap texture, "undefined" until created
  rotX, rotY,           \* SkyBox: model rotations, in hundredths of a radian
  lastDraw,             \* SkyBox: who called the last draw() and what it rendered
  nTextures, nLoadDraws \* SkyBox: createTexture calls, draws from onload (history)

jointMatrices == <<turbineMatrix, baseMatrix, generatorMatrix, rotorMatrix, bladeMatrix>>
localMatrices == <<turbineMatrixLocal, baseMatrixLocal, generatorMatrixLocal,
                   rotorMatrixLocal, bladeMatrixLocal>>
animVars == <<rotDir, rotSpeed, rotAnim>>
stackHarness == <<lastOp, ret, prevS, prevWarnings, live, underflowed, nCalls>>
speedHarness == <<argN, prevSpeed>>
squareVars == <<ang, direction, cindex, click, moved, sqKey>>
scaleHarness == <<nUp, nDown>>
skyVars == <<skState, loadedImgs, ct, texID, rotX, rotY, lastDraw, nTextures, nLoadDraws>>
vars == <<joint, animVars, jointMatrices, localMatrices, s, warnings, frame, pc,
          caller, listening, pending, ev, nRotate, nPush, nPop, stackHarness,
          speedHarness, squareVars, scaleHarness,
                 skyVars>>

\* ----------------------------------------------------------------- Matrix4
Factor(k, a, x, y, z) == [k |-> k, a |-> a, x |-> x, y |-> y, z |-> z]

\* new Matrix4(): the identity
Identity == <<>>

\* Matrix4.setTranslate(x, y, z)
setTranslate(x, y, z) ==
  IF x = 0 /\ y = 0 /\ z = 0 THEN Identity ELSE <<Factor("T", 0, x, y, z)>>

\* Matrix4.setRotate(angle, x, y, z)
setRotate(a, x, y, z) ==
  IF a = 0 THEN Identity ELSE <<Factor("R", a, x, y, z)>>

\* Matrix4.setScale(x, y, z), in tenths
setScale(x, y, z) == <<Factor("S", 0, x, y, z)>>

\* m.multiply(n): m * n
multiply(m, n) == m \o n

\* m.translate / m.rotate / m.scale: multiply on the right
translate(m, x, y, z) == multiply(m, setTranslate(x, y, z))
rotate4(m, a, x, y, z) == multiply(m, setRotate(a, x, y, z))
scale(m, f) == multiply(m, setScale(f, f, f))

\* a reference to a matrix object: the object's identity and its value
Ref(id, m) == [id |-> id, m |-> m]
Undefined == Ref("undefined", Identity)

\* new Matrix4(src): a copy of src, the identity when src is not a matrix
Matrix4(r) == IF r = Undefined THEN Identity ELSE r.m

\* ------------------------------------------------------------------- Stack
NoStack == [elements |-> <<>>, t |-> -1]

\* constructor(): this.elements = []; this.t = 0
NewStack == [elements |-> <<>>, t |-> 0]

\* elements[i] = v for a 0-based index i <= elements.length
SetAt(elements, i, v) ==
  IF i < Len(elements) THEN [elements EXCEPT ![i + 1] = v] ELSE Append(elements, v)

\* elements[i] for a 0-based index i; undefined outside the array
At(elements, i) ==
  IF i >= 0 /\ i < Len(elements) THEN elements[i + 1] ELSE Undefined

\* push(m): this.elements[this.t++] = m
Stack_push(st, m) == [elements |-> SetAt(st.elements, st.t, m), t |-> st.t + 1]

\* top(): the value returned
Stack_top(st) == IF st.t <= 0 THEN Undefined ELSE At(st.elements, st.t - 1)

Log(msg, n) == [msg |-> msg, n |-> n]

\* top(): what it logs
Stack_top_log(st) ==
  IF st.t <= 0
  THEN <<Log("top = ", st.t), Log("Warning: stack underflow", 0)>>
  ELSE <<>>

\* pop() that forgets to lower the top
Stack_pop_keepsDepth(st) ==
  IF st.t <= 0
  THEN st
  ELSE [elements |-> SetAt(st.elements, st.t - 1, Undefined), t |-> st.t]

\* pop() without the underflow test
Stack_pop_unguarded(st) == [elements |-> st.elements, t |-> st.t - 1]

\* pop(): the stack it leaves
Stack_pop(st) ==
  IF st.t <= 0
  THEN st
  ELSE [elements |-> SetAt(st.elements, st.t - 1, Undefined), t |-> st.t - 1]

\* pop(): the value returned
Stack_pop_ret(st) == IF st.t <= 0 THEN Undefined ELSE At(st.elements, st.t - 1)

\* pop(): what it logs
Stack_pop_log(st) ==
  IF st.t <= 0 THEN <<Log("Warning: stack underflow", 0)>> ELSE <<>>

\* isEmpty()
Stack_isEmpty(st) == st.t <= 0

\* ------------------------------------------------------------- joint model
Node == {"turbine", "base", "generator", "rotor", "blade"}

\* var joint = {...}
jointInit ==
  [turbine |-> 0, base |-> 0, generator |-> 0, rotor |-> 0, blade |-> 0,
   shoulder |-> 45, arm |-> 45, hand |-> 0]

\* new Matrix4().setTranslate(0, 0, 0).rotate(joint.turbine, 0, 1, 0)
turbineMatrixOf(a) == rotate4(setTranslate(0, 0, 0), a, 0, 1, 0)

\* new Matrix4().setTranslate(0, -10, 0).rotate(joint.base, 0, 1, 0)
baseMatrixOf(a) == rotate4(setTranslate(0, -10, 0), a, 0, 1, 0)

\* new Matrix4().setTranslate(0, 8, 0).rotate(joint.generator, 0, 1, 0)
generatorMatrixOf(a) == rotate4(setTranslate(0, 8, 0), a, 0, 1, 0)

\* new Matrix4().setTranslate(0, 0, 3).rotate(joint.rotor, 0, 1, 5)
rotorMatrixInit(a) == rotate4(setTranslate(0, 0, 3), a, 0, 1, 5)

\* new Matrix4().setTranslate(0, 0, 0).rotate(joint.blade, 0, 1, 0)
bladeMatrixOf(a) == rotate4(setTranslate(0, 0, 0), a, 0, 1, 0)

\* var modelMatrix = new Matrix4()
modelMatrix == Identity

\* changeRotAnim: rotAnim = !rotAnim
changeRotAnim(anim) == ~anim

\* changeRotSpeed(n) without the floor
changeRotSpeed_noFloor(speed, n) == speed + n

\* changeRotSpeed(n) that tests n instead of rotSpeed + n
changeRotSpeed_testsArg(speed, n) == IF n < SpeedFloor THEN SpeedFloor ELSE speed + n

\* changeRotSpeed(n), as a function of the current speed
changeRotSpeed(speed, n) == IF speed + n < SpeedFloor THEN SpeedFloor ELSE speed + n

\* scaleMoinho(factor) on one of the five local matrices
scaleMoinho(m, factor) == scale(m, factor)

\* rotate() with the two directions exchanged
rotate_joint_swapped(j, anim, dir, speed) ==
  IF anim
  THEN IF dir THEN [j EXCEPT !.rotor = @ - speed] ELSE [j EXCEPT !.rotor = @ + speed]
  ELSE j

\* rotate() that does not test rotAnim
rotate_joint_always(j, anim, dir, speed) ==
  IF dir THEN [j EXCEPT !.rotor = @ + speed] ELSE [j EXCEPT !.rotor = @ - speed]

\* rotate(): the joint angles it leaves
rotate_joint(j, anim, dir, speed) ==
  IF anim
  THEN IF dir THEN [j EXCEPT !.rotor = @ + speed] ELSE [j EXCEPT !.rotor = @ - speed]
  ELSE j

\* rotate() that multiplies rotorMatrix in place, without setTranslate(0, 0, 3)
rotate_rotorMatrix_accumulates(m, j, anim) ==
  IF anim
  THEN multiply(m, translate(rotate4(setTranslate(0, 0, 0), j.rotor, 0, 0, 1), 0, 0, 0))
  ELSE m

\* rotate(): the rotorMatrix it leaves, j being the joint angles it has just set
rotate_rotorMatrix(m, j, anim) ==
  IF anim
  THEN multiply(setTranslate(0, 0, 3),
                translate(rotate4(setTranslate(0, 0, 0), j.rotor, 0, 0, 1), 0, 0, 0))
  ELSE m

\* case "t" / "T": joint.turbine += 15 / -= 15
key_turbine(j, d) == [j EXCEPT !.turbine = @ + d]

\* case "g" / "G" that adjusts the turbine angle as well
key_generator_bothJoints(j, d) == [j EXCEPT !.generator = @ + d, !.turbine = @ + d]

\* case "g" / "G": joint.generator += 15 / -= 15
key_generator(j, d) == [j EXCEPT !.generator = @ + d]

\* case "t" / "T" that leaves turbineMatrix as it was
key_turbineMatrix_stale(j) == turbineMatrix

\* case "t" / "T": turbineMatrix.setTranslate(0, 0, 0).rotate(joint.turbine, 0, 1, 0)
key_turbineMatrix(j) == rotate4(setTranslate(0, 0, 0), j.turbine, 0, 1, 0)

\* case "g" / "G": generatorMatrix.setTranslate(0, 8, 0).rotate(joint.generator, 0, 1, 0)
key_generatorMatrix(j) == rotate4(setTranslate(0, 8, 0), j.generator, 0, 1, 0)

Abs(n) == IF n < 0 THEN -n ELSE n

\* ------------------------------------------------------------------ draw()
Instr(op, node) == [op |-> op, node |-> node]

\* draw() without its last s.pop()
DrawProg_missingPop ==
  << Instr("new", "turbine"),
     Instr("push", "turbine"), Instr("render", "turbine"),
     Instr("push", "base"), Instr("render", "base"), Instr("pop", "base"),
     Instr("push", "generator"), Instr("render", "generator"),
     Instr("push", "rotor"), Instr("render", "rotor"),
     Instr("push", "blade"), Instr("render", "blade"),
     Instr("pop", "blade"), Instr("pop", "rotor"), Instr("pop", "generator"),
     Instr("check", "turbine") >>

\* draw() with the s.pop() of the base moved to the end
DrawProg_latePop ==
  << Instr("new", "turbine"),
     Instr("push", "turbine"), Instr("render", "turbine"),
     Instr("push", "base"), Instr("render", "base"),
     Instr("push", "generator"), Instr("render", "generator"),
     Instr("push", "rotor"), Instr("render", "rotor"),
     Instr("push", "blade"), Instr("render", "blade"),
     Instr("pop", "blade"), Instr("pop", "rotor"), Instr("pop", "generator"),
     Instr("pop", "base"), Instr("pop", "turbine"),
     Instr("check", "turbine") >>

\* draw() that draws the generator branch before the base
DrawProg_generatorFirst ==
  << Instr("new", "turbine"),
     Instr("push", "turbine"), Instr("render", "turbine"),
     Instr("push", "generator"), Instr("render", "generator"),
     Instr("push", "rotor"), Instr("render", "rotor"),
     Instr("push", "blade"), Instr("render", "blade"),
     Instr("pop", "blade"), Instr("pop", "rotor"), Instr("pop", "generator"),
     Instr("push", "base"), Instr("render", "base"), Instr("pop", "base"),
     Instr("pop", "turbine"),
     Instr("check", "turbine") >>

\* draw() that pops twice after the base
DrawProg_doublePop ==
  << Instr("new", "turbine"),
     Instr("push", "turbine"), Instr("render", "turbine"),
     Instr("push", "base"), Instr("render", "base"), Instr("pop", "base"),
     Instr("pop", "base"),
     Instr("push", "generator"), Instr("render", "generator"),
     Instr("push", "rotor"), Instr("render", "rotor"),
     Instr("push", "blade"), Instr("render", "blade"),
     Instr("pop", "blade"), Instr("pop", "rotor"), Instr("pop", "generator"),
     Instr("check", "turbine") >>

\* the statements of draw(), in order
DrawProg ==
  << Instr("new", "turbine"),
     Instr("push", "turbine"), Instr("render", "turbine"),
     Instr("push", "base"), Instr("render", "base"), Instr("pop", "base"),
     Instr("push", "generator"), Instr("render", "generator"),
     Instr("push", "rotor"), Instr("render", "rotor"),
     Instr("push", "blade"), Instr("render", "blade"),
     Instr("pop", "blade"), Instr("pop", "rotor"), Instr("pop", "generator"),
     Instr("pop", "turbine"),
     Instr("check", "turbine") >>

jointMatrixOf(node) ==
  CASE node = "turbine" -> turbineMatrix
    [] node = "base" -> baseMatrix
    [] node = "generator" -> generatorMatrix
    [] node = "rotor" -> rotorMatrix
    [] node = "blade" -> bladeMatrix

localMatrixOf(node) ==
  CASE node = "turbine" -> turbineMatrixLocal
    [] node = "base" -> baseMatrixLocal
    [] node = "generator" -> generatorMatrixLocal
    [] node = "rotor" -> rotorMatrixLocal
    [] node = "blade" -> bladeMatrixLocal

\* draw() that pushes s.top().multiply(<node>Matrix): the object on top itself
draw_pushed_inPlace(st, node) ==
  IF node = "turbine"
  THEN Ref("turbineMatrix", turbineMatrix)
  ELSE Ref(Stack_top(st).id, multiply(Stack_top(st).m, jointMatrixOf(node)))

\* the object that draw() pushes for a node: turbineMatrix itself for the root,
\* new Matrix4(s.top()).multiply(<node>Matrix) for the others
draw_pushed(st, node) ==
  IF node = "turbine"
  THEN Ref("turbineMatrix", turbineMatrix)
  ELSE Ref(node, multiply(Matrix4(Stack_top(st)), jointMatrixOf(node)))

\* renderCube(matrixStack, matrixLocal): the cube it submits to gl.drawArrays
renderCube(st, node, local) ==
  [node |-> node, top |-> Stack_top(st), local |-> local,
   current |-> multiply(Matrix4(Ref("modelMatrix", modelMatrix)),
                        multiply(Matrix4(Stack_top(st)), local))]

\* ------------------------------------------------------------------- Init
NoRet == [val |-> Undefined, empty |-> FALSE]

\* the globals once the script has been evaluated, before the load event
InitGlobals ==
  /\ joint = jointInit
  /\ rotDir = FALSE
  /\ rotSpeed = 1
  /\ rotAnim = TRUE
  /\ turbineMatrix = turbineMatrixOf(jointInit.turbine)
  /\ baseMatrix = baseMatrixOf(jointInit.base)
  /\ generatorMatrix = generatorMatrixOf(jointInit.generator)
  /\ rotorMatrix = rotorMatrixInit(jointInit.rotor)
  /\ bladeMatrix = bladeMatrixOf(jointInit.blade)
  /\ turbineMatrixLocal = setScale(20, 200, 20)
  /\ baseMatrixLocal = setScale(50, 10, 50)
  /\ generatorMatrixLocal = setScale(30, 30, 50)
  /\ rotorMatrixLocal = setScale(12, 12, 10)
  /\ bladeMatrixLocal = setScale(200, 8, 8)
  /\ warnings = <<>>
  /\ frame = <<>>
  /\ pc = 0
  /\ caller = "none"
  /\ listening = FALSE
  /\ pending = 0
  /\ ev = "none"
  /\ nRotate = 0
  /\ nPush = 0
  /\ nPop = 0
  /\ lastOp = "none"
  /\ ret = NoRet
  /\ prevWarnings = <<>>
  /\ live = <<>>
  /\ underflowed = FALSE
  /\ nCalls = 0
  /\ argN = 0
  /\ prevSpeed = 0
  /\ ang = 0
  /\ direction = FALSE
  /\ cindex = 0
  /\ click = FALSE
  /\ moved = FALSE
  /\ sqKey = "none"
  /\ nUp = 0
  /\ nDown = 0
  /\ skState = "unloaded"
  /\ loadedImgs = {}
  /\ ct = 0
  /\ texID = "undefined"
  /\ rotX = 0
  /\ rotY = 0
  /\ lastDraw = [by |-> "none", skybox |-> FALSE, teapot |-> FALSE]
  /\ nTextures = 0
  /\ nLoadDraws = 0

\* no draw() is running: there is no Stack
Init ==
  /\ InitGlobals
  /\ s = NoStack
  /\ prevS = NoStack

\* ------------------------------------------------------------ the handlers
harnessVars == <<stackHarness, speedHarness, squareVars, scaleHarness,
                 skyVars>>

\* a handler reaches its call of draw()
CallDraw(who, e) ==
  /\ pc' = 1
  /\ caller' = who
  /\ ev' = e
  /\ UNCHANGED <<s, warnings, frame, nPush, nPop, harnessVars>>

\* animate() that draws without calling rotate()
Animate_noRotate(e) ==
  /\ CallDraw("animate", e)
  /\ UNCHANGED <<joint, animVars, jointMatrices, localMatrices, nRotate>>

\* animate(): rotate(), then draw()
Animate(e) ==
  /\ Abs(rotate_joint(joint, rotAnim, rotDir, rotSpeed).rotor) <= MaxRotor
  /\ joint' = rotate_joint(joint, rotAnim, rotDir, rotSpeed)
  /\ rotorMatrix' = rotate_rotorMatrix(rotorMatrix, joint', rotAnim)
  /\ nRotate' = nRotate + 1
  /\ CallDraw("animate", e)
  /\ UNCHANGED <<animVars, turbineMatrix, baseMatrix, generatorMatrix, bladeMatrix,
                 localMatrices>>

\* the load handler: registers the key listener and calls animate() at once
Load ==
  /\ pc = 0
  /\ ~listening
  /\ listening' = TRUE
  /\ UNCHANGED pending
  /\ Animate("load")

\* an animation-frame callback runs animate()
Tick ==
  /\ pc = 0
  /\ pending > 0
  /\ pending' = pending - 1
  /\ UNCHANGED listening
  /\ Animate("tick")

\* handleKeyPress is entered
Key(e) ==
  /\ pc = 0
  /\ listening
  /\ UNCHANGED <<listening, pending, nRotate>>

Key_t ==
  /\ Key("t")
  /\ Abs(joint.turbine + AngleStep) <= MaxJoint * AngleStep
  /\ joint' = key_turbine(joint, AngleStep)
  /\ turbineMatrix' = key_turbineMatrix(joint')
  /\ CallDraw("key", "t")
  /\ UNCHANGED <<animVars, baseMatrix, generatorMatrix, rotorMatrix, bladeMatrix,
                 localMatrices>>

Key_T ==
  /\ Key("T")
  /\ Abs(joint.turbine - AngleStep) <= MaxJoint * AngleStep
  /\ joint' = key_turbine(joint, -AngleStep)
  /\ turbineMatrix' = key_turbineMatrix(joint')
  /\ CallDraw("key", "T")
  /\ UNCHANGED <<animVars, baseMatrix, generatorMatrix, rotorMatrix, bladeMatrix,
                 localMatrices>>

Key_g ==
  /\ Key("g")
  /\ Abs(joint.generator + AngleStep) <= MaxJoint * AngleStep
  /\ joint' = key_generator(joint, AngleStep)
  /\ generatorMatrix' = key_generatorMatrix(joint')
  /\ CallDraw("key", "g")
  /\ UNCHANGED <<animVars, turbineMatrix, baseMatrix, rotorMatrix, bladeMatrix,
                 localMatrices>>

Key_G ==
  /\ Key("G")
  /\ Abs(joint.generator - AngleStep) <= MaxJoint * AngleStep
  /\ joint' = key_generator(joint, -AngleStep)
  /\ generatorMatrix' = key_generatorMatrix(joint')
  /\ CallDraw("key", "G")
  /\ UNCHANGED <<animVars, turbineMatrix, baseMatrix, rotorMatrix, bladeMatrix,
                 localMatrices>>

Key_r ==
  /\ Key("r")
  /\ rotDir' = FALSE
  /\ CallDraw("key", "r")
  /\ UNCHANGED <<joint, rotSpeed, rotAnim, jointMatrices, localMatrices>>

Key_R ==
  /\ Key("R")
  /\ rotDir' = TRUE
  /\ CallDraw("key", "R")
  /\ UNCHANGED <<joint, rotSpeed, rotAnim, jointMatrices, localMatrices>>

Key_b ==
  /\ Key("b")
  /\ rotSpeed' = changeRotSpeed(rotSpeed, -1)
  /\ CallDraw("key", "b")
  /\ UNCHANGED <<joint, rotDir, rotAnim, jointMatrices, localMatrices>>

Key_B ==
  /\ Key("B")
  /\ changeRotSpeed(rotSpeed, 1) <= MaxSpeed
  /\ rotSpeed' = changeRotSpeed(rotSpeed, 1)
  /\ CallDraw("key", "B")
  /\ UNCHANGED <<joint, rotDir, rotAnim, jointMatrices, localMatrices>>

Key_o ==
  /\ Key("o")
  /\ rotSpeed' = 1
  /\ rotDir' = FALSE
  /\ CallDraw("key", "o")
  /\ UNCHANGED <<joint, rotAnim, jointMatrices, localMatrices>>

Key_space ==
  /\ Key(" ")
  /\ rotAnim' = changeRotAnim(rotAnim)
  /\ CallDraw("key", " ")
  /\ UNCHANGED <<joint, rotDir, rotSpeed, jointMatrices, localMatrices>>

\* case "ArrowUp" / "ArrowDown": scaleMoinho(factor)
KeyScale(e, factor) ==
  /\ Key(e)
  /\ Len(turbineMatrixLocal) - 1 < MaxScale
  /\ turbineMatrixLocal' = scaleMoinho(turbineMatrixLocal, factor)
  /\ baseMatrixLocal' = scaleMoinho(baseMatrixLocal, factor)
  /\ generatorMatrixLocal' = scaleMoinho(generatorMatrixLocal, factor)
  /\ rotorMatrixLocal' = scaleMoinho(rotorMatrixLocal, factor)
  /\ bladeMatrixLocal' = scaleMoinho(bladeMatrixLocal, factor)
  /\ CallDraw("key", e)
  /\ UNCHANGED <<joint, animVars, jointMatrices>>

Key_ArrowUp == KeyScale("ArrowUp", ScaleUp)

Key_ArrowDown == KeyScale("ArrowDown", ScaleDown)

\* default that falls through to draw()
Key_other_draws ==
  /\ Key("other")
  /\ CallDraw("key", "other")
  /\ UNCHANGED <<joint, animVars, jointMatrices, localMatrices>>

\* default: return (no draw)
Key_other ==
  /\ Key("other")
  /\ ev' = "other"
  /\ UNCHANGED <<joint, animVars, jointMatrices, localMatrices, s, warnings, frame,
                 pc, caller, nPush, nPop, harnessVars>>

\* ------------------------------------------------------ draw(), step by step
InDraw(op) == pc > 0 /\ DrawProg[pc].op = op

DrawFrame ==
  UNCHANGED <<joint, animVars, jointMatrices, localMatrices, listening, harnessVars>>

\* gl.clear(...); var s = new Stack()
DrawNew ==
  /\ InDraw("new")
  /\ frame' = <<>>
  /\ s' = NewStack
  /\ nPush' = 0
  /\ nPop' = 0
  /\ ev' = "none"
  /\ nRotate' = 0
  /\ pc' = pc + 1
  /\ DrawFrame
  /\ UNCHANGED <<warnings, caller, pending>>

\* s.push(turbineMatrix); s.push(new Matrix4(s.top()).multiply(<node>Matrix))
DrawPush ==
  /\ InDraw("push")
  /\ s' = Stack_push(s, draw_pushed(s, DrawProg[pc].node))
  /\ warnings' = IF DrawProg[pc].node = "turbine" THEN warnings
                 ELSE warnings \o Stack_top_log(s)
  /\ nPush' = nPush + 1
  /\ pc' = pc + 1
  /\ DrawFrame
  /\ UNCHANGED <<frame, caller, pending, ev, nRotate, nPop>>

\* renderCube(s, <node>MatrixLocal)
DrawRender ==
  /\ InDraw("render")
  /\ frame' = Append(frame, renderCube(s, DrawProg[pc].node,
                                       localMatrixOf(DrawProg[pc].node)))
  /\ warnings' = warnings \o Stack_top_log(s)
  /\ pc' = pc + 1
  /\ DrawFrame
  /\ UNCHANGED <<s, caller, pending, ev, nRotate, nPush, nPop>>

\* s.pop()
DrawPop ==
  /\ InDraw("pop")
  /\ s' = Stack_pop(s)
  /\ warnings' = warnings \o Stack_pop_log(s)
  /\ nPop' = nPop + 1
  /\ pc' = pc + 1
  /\ DrawFrame
  /\ UNCHANGED <<frame, caller, pending, ev, nRotate, nPush>>

\* draw() followed by requestAnimationFrame(animate) whoever called it
DrawCheck_alwaysRequests ==
  /\ pc > 0
  /\ DrawProg[pc].op = "check"
  /\ warnings' = IF ~Stack_isEmpty(s)
                 THEN Append(warnings, Log("Warning: pops do not match pushes", 0))
                 ELSE warnings
  /\ s' = NoStack
  /\ pending' = pending + 1
  /\ caller' = "none"
  /\ pc' = 0
  /\ UNCHANGED <<joint, animVars, jointMatrices, localMatrices, listening,
                 stackHarness, speedHarness, squareVars, scaleHarness,
                 skyVars>>
  /\ UNCHANGED <<frame, ev, nRotate, nPush, nPop>>

\* if (!s.isEmpty()) console.log(...); draw() returns to its caller, and
\* animate() then calls requestAnimationFrame(animate)
DrawCheck ==
  /\ InDraw("check")
  /\ warnings' = IF ~Stack_isEmpty(s)
                 THEN Append(warnings, Log("Warning: pops do not match pushes", 0))
                 ELSE warnings
  /\ s' = NoStack
  /\ pending' = IF caller = "animate" THEN pending + 1 ELSE pending
  /\ caller' = "none"
  /\ pc' = 0
  /\ DrawFrame
  /\ UNCHANGED <<frame, ev, nRotate, nPush, nPop>>

Draw == DrawNew \/ DrawPush \/ DrawRender \/ DrawPop \/ DrawCheck

Next ==
  \/ Load
  \/ Tick
  \/ Key_t \/ Key_T \/ Key_g \/ Key_G
  \/ Key_r \/ Key_R \/ Key_b \/ Key_B \/ Key_o \/ Key_space
  \/ Key_ArrowUp \/ Key_ArrowDown
  \/ Key_other
  \/ Draw

Spec == Init /\ [][Next]_vars

\* ------------------------------------------------------ the stack harness
\* Any sequence of push / top / pop / isEmpty calls on one Stack, underflowing
\* calls included.
StackVals ==
  { Ref("turbineMatrix", turbineMatrixOf(0)),
    Ref("generatorMatrix", generatorMatrixOf(AngleStep)),
    Ref("rotorMatrix", rotorMatrixInit(0)) }

InitStack ==
  /\ InitGlobals
  /\ s = NewStack
  /\ prevS = NewStack

programVars ==
  <<joint, animVars, jointMatrices, localMatrices, frame, pc, caller, listening,
    pending, ev, nRotate, speedHarness, squareVars, scaleHarness,
                 skyVars>>

Called(op) ==
  /\ nCalls < MaxOps
  /\ nCalls' = nCalls + 1
  /\ lastOp' = op
  /\ prevS' = s
  /\ prevWarnings' = warnings
  /\ UNCHANGED programVars

CallPush(m) ==
  /\ Called("push")
  /\ s.t < MaxDepth
  /\ s' = Stack_push(s, m)
  /\ ret' = NoRet
  /\ nPush' = nPush + 1
  /\ live' = Append(live, m)
  /\ UNCHANGED <<warnings, nPop, underflowed>>

CallTop ==
  /\ Called("top")
  /\ ret' = [val |-> Stack_top(s), empty |-> FALSE]
  /\ warnings' = warnings \o Stack_top_log(s)
  /\ underflowed' = (underflowed \/ live = <<>>)
  /\ UNCHANGED <<s, nPush, nPop, live>>

CallPop ==
  /\ Called("pop")
  /\ s' = Stack_pop(s)
  /\ ret' = [val |-> Stack_pop_ret(s), empty |-> FALSE]
  /\ warnings' = warnings \o Stack_pop_log(s)
  /\ nPop' = nPop + 1
  /\ live' = IF live = <<>> THEN live ELSE SubSeq(live, 1, Len(live) - 1)
  /\ underflowed' = (underflowed \/ live = <<>>)
  /\ UNCHANGED nPush

CallIsEmpty ==
  /\ Called("isEmpty")
  /\ ret' = [val |-> Undefined, empty |-> Stack_isEmpty(s)]
  /\ UNCHANGED <<s, warnings, nPush, nPop, live, underflowed>>

NextStack ==
  \/ \E m \in StackVals : CallPush(m)
  \/ CallTop
  \/ CallPop
  \/ CallIsEmpty

SpecStack == InitStack /\ [][NextStack]_vars

\* ------------------------------------------------------ the speed harness
\* changeRotSpeed(n) for any small integer n, from any speed it can leave.
AdjustSpeed(n) ==
  /\ changeRotSpeed(rotSpeed, n) <= MaxPureSpeed
  /\ rotSpeed' = changeRotSpeed(rotSpeed, n)
  /\ argN' = n
  /\ prevSpeed' = rotSpeed
  /\ UNCHANGED <<joint, rotDir, rotAnim, jointMatrices, localMatrices, s, warnings,
                 frame, pc, caller, listening, pending, ev, nRotate, nPush, nPop,
                 stackHarness, squareVars, scaleHarness,
                 skyVars>>

NextSpeed == \E n \in (-MaxAdj) .. MaxAdj : AdjustSpeed(n)

SpecSpeed == Init /\ [][NextSpeed]_vars

\* ----------------------------------------------------- the render harness
\* renderCube called on a Stack in any state, the empty one included.
RenderNodes == {"turbine", "rotor"}

CallRender(node) ==
  /\ nCalls < MaxOps
  /\ nCalls' = nCalls + 1
  /\ lastOp' = "render"
  /\ prevS' = s
  /\ prevWarnings' = warnings
  /\ frame' = Append(frame, renderCube(s, node, localMatrixOf(node)))
  /\ warnings' = warnings \o Stack_top_log(s)
  /\ ret' = NoRet
  /\ underflowed' = (underflowed \/ live = <<>>)
  /\ UNCHANGED <<joint, animVars, jointMatrices, localMatrices, s, pc, caller,
                 listening, pending, ev, nRotate, nPush, nPop, live, speedHarness,
                 squareVars, scaleHarness,
                 skyVars>>

NextRender ==
  \/ NextStack
  \/ \E node \in RenderNodes : CallRender(node)

SpecRender == InitStack /\ [][NextRender]_vars

\* ------------------------------------------------------ the scale harness
\* handleKeyPress for ArrowUp and ArrowDown only, pressed any number of
\* times up to MaxPresses, each followed by its draw().

\* case "ArrowUp" / "ArrowDown" whose scaleMoinho leaves the blade alone
ScalePress_skipsBlade(e, factor) ==
  /\ pc = 0
  /\ listening
  /\ nUp + nDown < MaxPresses
  /\ turbineMatrixLocal' = scaleMoinho(turbineMatrixLocal, factor)
  /\ baseMatrixLocal' = scaleMoinho(baseMatrixLocal, factor)
  /\ generatorMatrixLocal' = scaleMoinho(generatorMatrixLocal, factor)
  /\ rotorMatrixLocal' = scaleMoinho(rotorMatrixLocal, factor)
  /\ nUp' = (IF e = "ArrowUp" THEN nUp + 1 ELSE nUp)
  /\ nDown' = (IF e = "ArrowDown" THEN nDown + 1 ELSE nDown)
  /\ pc' = 1
  /\ caller' = "key"
  /\ ev' = e
  /\ UNCHANGED <<joint, animVars, jointMatrices, bladeMatrixLocal, s, warnings,
                 frame, listening, pending, nRotate, nPush, nPop, stackHarness,
                 speedHarness, squareVars, skyVars>>

\* case "ArrowUp" / "ArrowDown": scaleMoinho(factor); then draw() is called
ScalePress(e, factor) ==
  /\ pc = 0
  /\ listening
  /\ nUp + nDown < MaxPresses
  /\ turbineMatrixLocal' = scaleMoinho(turbineMatrixLocal, factor)
  /\ baseMatrixLocal' = scaleMoinho(baseMatrixLocal, factor)
  /\ generatorMatrixLocal' = scaleMoinho(generatorMatrixLocal, factor)
  /\ rotorMatrixLocal' = scaleMoinho(rotorMatrixLocal, factor)
  /\ bladeMatrixLocal' = scaleMoinho(bladeMatrixLocal, factor)
  /\ nUp' = (IF e = "ArrowUp" THEN nUp + 1 ELSE nUp)
  /\ nDown' = (IF e = "ArrowDown" THEN nDown + 1 ELSE nDown)
  /\ pc' = 1
  /\ caller' = "key"
  /\ ev' = e
  /\ UNCHANGED <<joint, animVars, jointMatrices, s, warnings, frame, listening,
                 pending, nRotate, nPush, nPop, stackHarness, speedHarness,
                 squareVars, skyVars>>

NextScale ==
  \/ Load
  \/ ScalePress("ArrowUp", ScaleUp)
  \/ ScalePress("ArrowDown", ScaleDown)
  \/ Draw

SpecScale == Init /\ [][NextScale]_vars

\* ------------------------------------- RotatingSquare2: the animation loop
Increment == 2     \* var increment = 2.0
FullTurn == 360    \* ang = ang % 360

\* a % n of JavaScript, n > 0: the remainder has the sign of a
jsRem(a, n) == IF a >= 0 THEN a % n ELSE -((-a) % n)

\* the loop body of runanimation, up to ang = ang % 360: the direction it leaves
loop_direction(dir, colison) == IF colison THEN ~dir ELSE dir

\* the loop body of runanimation, up to ang = ang % 360: the angle it leaves
loop_ang(a, dir) == jsRem(IF dir THEN a - Increment ELSE a + Increment, FullTurn)

squareOthers ==
  <<joint, animVars, jointMatrices, localMatrices, s, warnings, frame, pc, caller,
    listening, pending, ev, nRotate, nPush, nPop, stackHarness, speedHarness,
    scaleHarness, skyVars>>

\* getRotatingCorners that has no case for the white corner
getRotatingCorners_noWhite(actualCorner) ==
  CASE actualCorner = 0 -> <<1, 2, 5>>
    [] actualCorner = 1 -> <<0, 2, 5>>
    [] actualCorner = 2 -> <<1, 0, 5>>
    [] OTHER -> <<>>

\* what a switch without a matching case returns: undefined
NoCorners == <<>>

\* getRotatingCorners(actualCorner)
getRotatingCorners(actualCorner) ==
  CASE actualCorner = 0 -> <<1, 2, 5>>
    [] actualCorner = 1 -> <<0, 2, 5>>
    [] actualCorner = 2 -> <<1, 0, 5>>
    [] actualCorner = 5 -> <<1, 2, 0>>
    [] OTHER -> NoCorners

\* One frame of runanimation.  colison is what calculateVertexColison returns,
\* a test on floating-point positions that is an input here; the square,
\* side 1 about the origin, cannot leave the window of half-width 2.5 while
\* it turns about its initial pivot, so there is no collision before a frame
\* has applied a key's pivot.  calculateVertexColison maps over
\* getRotatingCorners(cindex): without a corner list it throws, and the frame
\* neither runs nor requests the next one.
SquareFrame(colison) ==
  /\ getRotatingCorners(cindex) # NoCorners
  /\ colison => moved
  /\ sqKey' = "none"
  /\ direction' = loop_direction(direction, colison)
  /\ ang' = loop_ang(ang, direction')
  /\ click' = FALSE
  /\ moved' = (moved \/ click)
  /\ UNCHANGED <<cindex, squareOthers>>

SquareKeys == {"r", "g", "b", "w", "other"}

\* handleKeyPress of RotatingSquare2: r, g, b, w choose the pivot and set
\* click; any other key returns before click is set
SquareKey(ch) ==
  IF ch = "other"
  THEN /\ sqKey' = ch
       /\ UNCHANGED <<ang, direction, cindex, click, moved, squareOthers>>
  ELSE /\ cindex' = (CASE ch = "r" -> 0 [] ch = "g" -> 1 [] ch = "b" -> 2
                       [] ch = "w" -> 5)
       /\ click' = TRUE
       /\ sqKey' = ch
       /\ UNCHANGED <<ang, direction, moved, squareOthers>>

NextSquare ==
  \/ \E colison \in BOOLEAN : SquareFrame(colison)
  \/ \E ch \in SquareKeys : SquareKey(ch)

SpecSquare == Init /\ [][NextSquare]_vars

\* ------------------------------------------------- SkyBox: skybox-and-env-map
NumFaces == 6      \* for (var i = 0; i < 6; i++), if (ct == 6)
TiltStep == 15     \* rotY -= 0.15, in hundredths

skyOthers ==
  <<joint, animVars, jointMatrices, localMatrices, s, warnings, frame, pc, caller,
    listening, pending, ev, nRotate, nPush, nPop, stackHarness, speedHarness,
    squareVars, scaleHarness>>

\* draw(): cubeSB.render() and teapot.render() are both under if (texID)
sky_draw(who, tex) ==
  [by |-> who, skybox |-> tex # "undefined", teapot |-> tex # "undefined"]

\* init(m) when the context or a shader cannot be created: the catch returns
SkyInitFails ==
  /\ skState = "unloaded"
  /\ skState' = "failed"
  /\ UNCHANGED <<loadedImgs, ct, texID, rotX, rotY, lastDraw, nTextures, nLoadDraws,
                 skyOthers>>

\* init(m): loadTextureCube(); addEventListener("keydown", doKey); draw()
SkyInit ==
  /\ skState = "unloaded"
  /\ skState' = "ready"
  /\ lastDraw' = sky_draw("init", texID)
  /\ UNCHANGED <<loadedImgs, ct, texID, rotX, rotY, nTextures, nLoadDraws, skyOthers>>

\* img[i].onload that creates the texture and draws on every load
SkyImageLoad_everyLoad(i) ==
  /\ skState = "ready"
  /\ i \notin loadedImgs
  /\ loadedImgs' = loadedImgs \cup {i}
  /\ ct' = ct + 1
  /\ texID' = "texture"
  /\ nTextures' = nTextures + 1
  /\ nLoadDraws' = nLoadDraws + 1
  /\ lastDraw' = sky_draw("load", texID')
  /\ UNCHANGED <<skState, rotX, rotY, skyOthers>>

\* img[i].onload: ct++; if (ct == 6) { texID = gl.createTexture(); ...; draw() }
SkyImageLoad(i) ==
  /\ skState = "ready"
  /\ i \notin loadedImgs
  /\ loadedImgs' = loadedImgs \cup {i}
  /\ ct' = ct + 1
  /\ IF ct' = NumFaces
     THEN /\ texID' = "texture"
          /\ nTextures' = nTextures + 1
          /\ nLoadDraws' = nLoadDraws + 1
          /\ lastDraw' = sky_draw("load", texID')
     ELSE UNCHANGED <<texID, nTextures, nLoadDraws, lastDraw>>
  /\ UNCHANGED <<skState, rotX, rotY, skyOthers>>

SkyKeyCodes == {37, 39, 38, 40, 13, 36, 0}

\* doKey(evt): the arrows turn the model, return and home reset it, and
\* draw() follows; any other key does nothing
SkyKey(code) ==
  /\ skState = "ready"
  /\ rotY' = (CASE code = 37 -> rotY - TiltStep
                [] code = 39 -> rotY + TiltStep
                [] code \in {13, 36} -> 0
                [] OTHER -> rotY)
  /\ rotX' = (CASE code = 38 -> rotX - TiltStep
                [] code = 40 -> rotX + TiltStep
                [] code \in {13, 36} -> 0
                [] OTHER -> rotX)
  /\ Abs(rotX') <= MaxTilt * TiltStep
  /\ Abs(rotY') <= MaxTilt * TiltStep
  /\ lastDraw' = (IF code \in {37, 39, 38, 40, 13, 36}
                  THEN sky_draw("key", texID) ELSE lastDraw)
  /\ UNCHANGED <<skState, loadedImgs, ct, texID, nTextures, nLoadDraws, skyOthers>>

\* the reset button: rotX = rotY = 0; rotator.setView(...); draw().  Before
\* init there is no rotator: setView throws and draw() is not reached.
SkyReset ==
  /\ rotX' = 0
  /\ rotY' = 0
  /\ lastDraw' = (IF skState = "ready" THEN sky_draw("reset", texID) ELSE lastDraw)
  /\ UNCHANGED <<skState, loadedImgs, ct, texID, nTextures, nLoadDraws, skyOthers>>

\* the SimpleRotator calls the draw it was constructed with when the mouse
\* drags the view
SkyRotate ==
  /\ skState = "ready"
  /\ lastDraw' = sky_draw("rotator", texID)
  /\ UNCHANGED <<skState, loadedImgs, ct, texID, rotX, rotY, nTextures, nLoadDraws,
                 skyOthers>>

NextSky ==
  \/ SkyInitFails
  \/ SkyInit
  \/ \E i \in 0 .. NumFaces - 1 : SkyImageLoad(i)
  \/ \E code \in SkyKeyCodes : SkyKey(code)
  \/ SkyReset
  \/ SkyRotate

SpecSky == Init /\ [][NextSky]_vars

\* ================================================================== claims

\* the part of a Stack that its methods can return: elements[0 .. t-1]
Contents(st) == SubSeq(st.elements, 1, st.t)

\* C1: in a sequence of push/top/pop calls that never underflows, top()
\* returns the most recently pushed element not yet popped and leaves depth
\* and contents unchanged; pop() returns that element and lowers the depth by
\* exactly one, so that what remains is what was there before the matching
\* push; isEmpty() is true exactly when as many pops as pushes have been made.
C1_StackContract ==
  ~underflowed =>
    /\ s.t = Len(live)
    /\ Contents(s) = live
    /\ Stack_isEmpty(s) <=> (nPush = nPop)
    /\ lastOp = "top" =>
         /\ ret.val = live[Len(live)]
         /\ s = prevS
    /\ lastOp = "pop" =>
         /\ Contents(prevS) = Append(live, ret.val)
         /\ s.t = prevS.t - 1
    /\ lastOp = "push" =>
         /\ s.t = prevS.t + 1
         /\ Contents(s) = Append(Contents(prevS), live[Len(live)])
    /\ lastOp = "isEmpty" => (ret.empty <=> (nPush = nPop))

\* a pop has just emptied a stack that held two elements, without underflow
C1_Witness ==
  /\ ~underflowed
  /\ lastOp = "pop"
  /\ nPush >= 2
  /\ nPush = nPop
  /\ Stack_isEmpty(s)
  /\ ret.val # Undefined

\* C2: top() or pop() on an empty Stack logs a warning, returns undefined and
\* leaves the depth at 0 and the contents unchanged; the depth is never
\* negative, and the calls that follow return what they return on a Stack
\* that never underflowed.
C2_Underflow ==
  /\ s.t >= 0
  /\ s.t = Len(live)
  /\ Contents(s) = live
  /\ (lastOp \in {"top", "pop"} /\ prevS.t = 0) =>
       /\ ret.val = Undefined
       /\ s = prevS
       /\ Len(warnings) > Len(prevWarnings)
       /\ SubSeq(warnings, 1, Len(prevWarnings)) = prevWarnings
       /\ warnings[Len(warnings)] = Log("Warning: stack underflow", 0)
  /\ (lastOp = "top" /\ prevS.t > 0) =>
       /\ ret.val = live[Len(live)]
       /\ warnings = prevWarnings
  /\ (lastOp = "pop" /\ prevS.t > 0) =>
       /\ Contents(prevS) = Append(live, ret.val)
       /\ warnings = prevWarnings
  /\ lastOp = "isEmpty" => (ret.empty <=> (live = <<>>))

\* after an underflow, elements were pushed and a pop has returned one of them
C2_Witness ==
  /\ underflowed
  /\ Len(warnings) > 0
  /\ lastOp = "pop"
  /\ prevS.t > 0
  /\ ret.val # Undefined
  /\ Len(prevS.elements) > prevS.t

\* the warnings draw() can give
MismatchWarning == Log("Warning: pops do not match pushes", 0)

Logged(w) == \E i \in 1 .. Len(warnings) : warnings[i] = w

\* C3: every call of draw() starts from a new empty Stack, makes exactly five
\* pushes and five pops, one of each per node, and ends with the stack empty;
\* the end-of-pass check never reports "pops do not match pushes".
C3_BalancedPass ==
  /\ pc = 0 => s = NoStack
  /\ pc = 2 => (s = NewStack /\ nPush = 0 /\ nPop = 0)
  /\ InDraw("check") =>
       /\ nPush = Cardinality(Node)
       /\ nPop = Cardinality(Node)
       /\ Stack_isEmpty(s)
       /\ s.t = 0
  /\ (pc = 0 /\ listening) => (nPush = Cardinality(Node) /\ nPop = Cardinality(Node))
  /\ ~Logged(MismatchWarning)

\* a pass begun by a key command stands at its end-of-pass check
C3_Witness ==
  /\ InDraw("check")
  /\ caller = "key"
  /\ nPush = 5
  /\ nPop = 5
  /\ Len(frame) = 5

\* the product of the joint matrices on the path from the root to a node
PathProduct(node) ==
  CASE node = "turbine" -> turbineMatrix
    [] node = "base" -> turbineMatrix \o baseMatrix
    [] node = "generator" -> turbineMatrix \o generatorMatrix
    [] node = "rotor" -> turbineMatrix \o generatorMatrix \o rotorMatrix
    [] node = "blade" -> turbineMatrix \o generatorMatrix \o rotorMatrix \o bladeMatrix

\* C4: at every render callback of a pass the top of the stack is the ordered
\* product of the joint matrices from the root to the node drawn, and the
\* callback gets it with the node's own shape transform.
C4_TopIsPathProduct ==
  pc > 1 =>
    \A i \in 1 .. Len(frame) :
      /\ frame[i].top # Undefined
      /\ frame[i].top.m = PathProduct(frame[i].node)
      /\ frame[i].local = localMatrixOf(frame[i].node)
      /\ frame[i].current = PathProduct(frame[i].node) \o localMatrixOf(frame[i].node)

\* the blade has been drawn with every turning joint away from angle 0
C4_Witness ==
  /\ pc > 1
  /\ Len(frame) = 5
  /\ frame[5].node = "blade"
  /\ frame[3].node = "generator"
  /\ joint.turbine # 0
  /\ joint.generator # 0
  /\ joint.rotor # 0

\* C5: rotSpeed is at least 1 in every reachable state.
C5_SpeedFloor == rotSpeed >= 1

\* key 'b' has been handled and the speed stands at the floor
C5_Witness ==
  /\ ev = "b"
  /\ pc = 1
  /\ rotSpeed = 1
  /\ rotDir

\* C6: changeRotSpeed(n) leaves max(1, rotSpeed + n), for every speed >= 1 and
\* every n, and reports nothing.
C6_ClampedAdjust ==
  prevSpeed >= 1 =>
    /\ rotSpeed >= 1
    /\ rotSpeed >= prevSpeed + argN
    /\ rotSpeed = 1 \/ rotSpeed = prevSpeed + argN
    /\ warnings = <<>>

\* at speed 1, an adjustment of -5 has left the speed at 1
C6_Witness ==
  /\ prevSpeed = 1
  /\ argN = -5
  /\ rotSpeed = 1

\* animate() has just run rotate() and stands at its call of draw()
AnimateStep == pc = 0 /\ pc' = 1 /\ caller' = "animate"

DirectionSign == IF rotDir THEN 1 ELSE -1

\* C7: while the animation runs, a tick changes the rotor angle by exactly
\* speed * direction (+1 for rotDir true, -1 for false), with the speed and
\* direction in force at the tick; the angle is neither wrapped nor clamped.
C7_TickDelta ==
  [][(AnimateStep /\ rotAnim) =>
       /\ joint'.rotor = joint.rotor + rotSpeed * DirectionSign
       /\ joint'.rotor - joint.rotor \in {rotSpeed, -rotSpeed}
       /\ (rotDir <=> joint'.rotor > joint.rotor)]_vars

\* a tick at speed 3 with rotDir false has brought the rotor back to 0: the
\* ticks before it had added 3 in all
C7_Witness ==
  /\ pc = 1
  /\ ev = "tick"
  /\ rotAnim
  /\ ~rotDir
  /\ rotSpeed = 3
  /\ joint.rotor = 0

\* C8: the animation starts Running and the space key toggles it; a tick
\* while Paused leaves the rotor angle and rotorMatrix unchanged; a tick while
\* Running changes the rotor angle by exactly speed * directionSign.
C8_PauseResume ==
  /\ rotAnim = TRUE
  /\ [][/\ (pc = 0 /\ ev' = " " /\ pc' = 1) => (rotAnim' = ~rotAnim)
        /\ (rotAnim' # rotAnim) => (pc = 0 /\ ev' = " " /\ pc' = 1)
        /\ (AnimateStep /\ ~rotAnim) =>
             /\ joint'.rotor = joint.rotor
             /\ rotorMatrix' = rotorMatrix
        /\ (AnimateStep /\ rotAnim) =>
             joint'.rotor = joint.rotor + rotSpeed * DirectionSign]_vars

\* a tick has run while Paused, with the rotor away from its initial angle
C8_Witness ==
  /\ pc = 1
  /\ ev = "tick"
  /\ ~rotAnim
  /\ joint.rotor # 0

\* C9 as stated: every call of draw() is preceded by exactly one call of
\* rotate() since the previous render pass.
C9_OneUpdatePerRender == pc = 1 => nRotate = 1

\* C9 as amended: a call of draw() made by animate() is preceded by exactly
\* one call of rotate() since the previous render pass, and a call of draw()
\* made by handleKeyPress by none.
C9_OneUpdatePerAnimatedRender ==
  /\ (pc = 1 /\ caller = "animate") => nRotate = 1
  /\ (pc = 1 /\ caller = "key") => nRotate = 0
  /\ pc = 1 => caller \in {"animate", "key"}
  /\ pc # 1 => nRotate = 0

\* an animation-frame callback stands at its call of draw()
C9_Witness ==
  /\ pc = 1
  /\ caller = "animate"
  /\ ev = "tick"
  /\ nRotate = 1

\* the joint matrices that the current angles determine
turbineExpected == setTranslate(0, 0, 0) \o setRotate(joint.turbine, 0, 1, 0)
baseExpected == setTranslate(0, -10, 0) \o setRotate(0, 0, 1, 0)
generatorExpected == setTranslate(0, 8, 0) \o setRotate(joint.generator, 0, 1, 0)
rotorExpected == setTranslate(0, 0, 3) \o setRotate(joint.rotor, 0, 0, 1)
bladeExpected == setTranslate(0, 0, 0) \o setRotate(0, 0, 1, 0)

ExpectedPath(node) ==
  CASE node = "turbine" -> turbineExpected
    [] node = "base" -> turbineExpected \o baseExpected
    [] node = "generator" -> turbineExpected \o generatorExpected
    [] node = "rotor" -> turbineExpected \o generatorExpected \o rotorExpected
    [] node = "blade" ->
         turbineExpected \o generatorExpected \o rotorExpected \o bladeExpected

\* C10: in every state each joint matrix is the one its current angle
\* determines, base and blade keeping angle 0, and the transforms a render
\* pass composes are built from these.
C10_NoStaleMatrix ==
  /\ turbineMatrix = turbineExpected
  /\ baseMatrix = baseExpected
  /\ generatorMatrix = generatorExpected
  /\ rotorMatrix = rotorExpected
  /\ bladeMatrix = bladeExpected
  /\ joint.base = 0
  /\ joint.blade = 0
  /\ pc > 1 =>
       \A i \in 1 .. Len(frame) : frame[i].top.m = ExpectedPath(frame[i].node)

\* a whole pass has been drawn while Paused, turbine and rotor being turned
C10_Witness ==
  /\ pc > 1
  /\ ~rotAnim
  /\ Len(frame) = 5
  /\ joint.turbine # 0
  /\ joint.rotor # 0

\* handleKeyPress has just handled key e and stands at its call of draw()
KeyStep(e) == pc = 0 /\ pc' = 1 /\ ev' = e

\* C11: keys t/T and g/G change the addressed joint's angle by exactly +15 or
\* -15 and rebuild that joint's matrix; every other angle and joint matrix,
\* the shape transforms, rotSpeed, rotDir and rotAnim are unchanged, whether
\* the animation is Running or Paused.
C11_AdjustJointFrame ==
  [][/\ (KeyStep("t") \/ KeyStep("T")) =>
          /\ joint'.turbine = joint.turbine + (IF ev' = "t" THEN 15 ELSE -15)
          /\ joint' = [joint EXCEPT !.turbine = joint'.turbine]
          /\ turbineMatrix' = setTranslate(0, 0, 0) \o setRotate(joint'.turbine, 0, 1, 0)
          /\ UNCHANGED <<baseMatrix, generatorMatrix, rotorMatrix, bladeMatrix>>
          /\ UNCHANGED <<localMatrices, rotSpeed, rotDir, rotAnim>>
     /\ (KeyStep("g") \/ KeyStep("G")) =>
          /\ joint'.generator = joint.generator + (IF ev' = "g" THEN 15 ELSE -15)
          /\ joint' = [joint EXCEPT !.generator = joint'.generator]
          /\ generatorMatrix' = setTranslate(0, 8, 0) \o setRotate(joint'.generator, 0, 1, 0)
          /\ UNCHANGED <<turbineMatrix, baseMatrix, rotorMatrix, bladeMatrix>>
          /\ UNCHANGED <<localMatrices, rotSpeed, rotDir, rotAnim>>]_vars

\* key G has been handled while Paused, the turbine and the rotor being turned
C11_Witness ==
  /\ pc = 1
  /\ ev = "G"
  /\ ~rotAnim
  /\ joint.generator = -15
  /\ joint.turbine = 15
  /\ joint.rotor # 0

\* C12: an unrecognized key changes no joint angle, joint matrix, shape
\* transform, rotSpeed, rotDir or rotAnim, reports nothing and starts no
\* render pass.
C12_UnknownKeyIgnored ==
  [][(pc = 0 /\ ev' = "other") =>
       /\ UNCHANGED <<joint, jointMatrices, localMatrices, rotSpeed, rotDir, rotAnim>>
       /\ UNCHANGED <<warnings, frame, s, pending>>
       /\ pc' = 0]_vars

\* an unrecognized key has been handled after a frame was drawn with a turned
\* turbine
C12_Witness ==
  /\ ev = "other"
  /\ pc = 0
  /\ Len(frame) = 5
  /\ joint.turbine # 0

\* the nodes of the cubes submitted so far in this pass
FrameNodes == [i \in 1 .. Len(frame) |-> frame[i].node]

PreOrder == <<"turbine", "base", "generator", "rotor", "blade">>

\* C13: a render pass draws each node exactly once, in depth-first pre-order
\* with children in declaration order: turbine, base, generator, rotor, blade.
C13_PreOrder ==
  /\ Len(frame) <= 5
  /\ FrameNodes = SubSeq(PreOrder, 1, Len(frame))
  /\ InDraw("check") => FrameNodes = PreOrder
  /\ (pc = 0 /\ listening) => FrameNodes = PreOrder

\* a pass begun by an animation frame has drawn all five nodes
C13_Witness ==
  /\ InDraw("check")
  /\ caller = "animate"
  /\ FrameNodes = PreOrder
  /\ pending = 0

\* the depth of a node in the tree, the root being at depth 1
TreeDepth(node) ==
  CASE node = "turbine" -> 1
    [] node = "base" -> 2
    [] node = "generator" -> 2
    [] node = "rotor" -> 3
    [] node = "blade" -> 4

\* C14: during a pass the depth of the stack while a node is drawn is that
\* node's depth in the tree, the depth before a node's push and after the pop
\* that ends its subtree are equal, and the pops come in the reverse order of
\* the pushes still open.
C14_DepthDiscipline ==
  /\ InDraw("render") => s.t = TreeDepth(DrawProg[pc].node)
  /\ InDraw("push") => s.t = TreeDepth(DrawProg[pc].node) - 1
  /\ InDraw("pop") => s.t = TreeDepth(DrawProg[pc].node)
  /\ (pc > 1 /\ DrawProg[pc - 1].op = "pop") => s.t = TreeDepth(DrawProg[pc - 1].node) - 1
  /\ (pc > 1 /\ DrawProg[pc - 1].op = "push") =>
       /\ s.t = TreeDepth(DrawProg[pc - 1].node)
       /\ s.elements[s.t].id = (IF s.t = 1 THEN "turbineMatrix" ELSE DrawProg[pc - 1].node)
  /\ (pc > 1 /\ s.t >= 0) => s.t = nPush - nPop

\* the blade is about to be drawn at depth 4
C14_Witness ==
  /\ InDraw("render")
  /\ DrawProg[pc].node = "blade"
  /\ s.t = 4
  /\ Len(frame) = 4

\* C15: angle changes are exactly reversible.  For turbine and generator the
\* opposite key, handled in the state that a key leaves, gives back the angle
\* and the matrix the key started from; for the rotor a tick in the opposite
\* direction at the same speed, run in the state that a Running tick leaves,
\* gives back the rotor angle and rotorMatrix the tick started from.
C15_Reversible ==
  [][/\ KeyStep("t") =>
          /\ key_turbine(joint', -AngleStep) = joint
          /\ key_turbineMatrix(key_turbine(joint', -AngleStep)) = turbineMatrix
     /\ KeyStep("T") =>
          /\ key_turbine(joint', AngleStep) = joint
          /\ key_turbineMatrix(key_turbine(joint', AngleStep)) = turbineMatrix
     /\ KeyStep("g") =>
          /\ key_generator(joint', -AngleStep) = joint
          /\ key_generatorMatrix(key_generator(joint', -AngleStep)) = generatorMatrix
     /\ KeyStep("G") =>
          /\ key_generator(joint', AngleStep) = joint
          /\ key_generatorMatrix(key_generator(joint', AngleStep)) = generatorMatrix
     /\ (AnimateStep /\ rotAnim) =>
          /\ rotate_joint(joint', rotAnim, ~rotDir, rotSpeed) = joint
          /\ rotate_rotorMatrix(rotorMatrix',
                                rotate_joint(joint', rotAnim, ~rotDir, rotSpeed),
                                rotAnim) = rotorMatrix]_vars

\* key T has brought the turbine back to angle 0 after a frame was drawn with
\* the turbine turned, and the matrix is again the one of angle 0
C15_Witness ==
  /\ pc = 1
  /\ ev = "T"
  /\ joint.turbine = 0
  /\ turbineMatrix = Identity
  /\ Len(frame) = 5
  /\ frame[1].top.m # Identity

\* the matrix objects that exist outside a render pass
SharedObjects ==
  {"turbineMatrix", "baseMatrix", "generatorMatrix", "rotorMatrix", "bladeMatrix",
   "modelMatrix"}

\* C16 as stated: every transform on the stack of a pass is a newly created
\* object, none a reference to a matrix that exists outside the pass.
C16_AllPushedFresh ==
  pc > 1 => \A i \in 1 .. s.t : s.elements[i].id \notin SharedObjects

\* C16 as amended: the entries pushed for base, generator, rotor and blade
\* are newly created objects, so no two entries of the stack are the same
\* object; the root entry is the shared turbineMatrix itself; and a pass
\* changes no matrix of the joint model and no entry already on the stack.
C16_NonRootPushedFresh ==
  /\ [](pc > 1 =>
          /\ \A i \in 2 .. s.t : s.elements[i].id \notin SharedObjects
          /\ \A i, j \in 1 .. s.t : s.elements[i].id = s.elements[j].id => i = j
          /\ s.t >= 1 => s.elements[1] = Ref("turbineMatrix", turbineMatrix))
  /\ [][pc > 0 =>
          /\ UNCHANGED <<jointMatrices, localMatrices>>
          /\ (pc > 1 /\ pc' > 1) =>
               \A i \in 1 .. s.t : i <= s'.t => s'.elements[i] = s.elements[i]]_vars

\* the four entries of the blade's path are on the stack
C16_Witness ==
  /\ pc > 1
  /\ s.t = 4
  /\ s.elements[1].id = "turbineMatrix"
  /\ s.elements[4].id = "blade"

UnderflowWarning == Log("Warning: stack underflow", 0)

\* C17: when renderCube is called on an empty stack the underflow is logged
\* and the draw call is aborted: no cube is submitted for that node.
C17_UnderflowAbortsDraw ==
  /\ (lastOp = "render" /\ prevS.t = 0) => Logged(UnderflowWarning)
  /\ \A i \in 1 .. Len(frame) : frame[i].top # Undefined

\* C18: after every frame of the rotating square the angle lies in [0, 360).
C18_AngleNormalized == ang >= 0 /\ ang < FullTurn

\* C19: ticks are serialized: a tick runs rotate() and draw() to completion and
\* then requests exactly one frame, a key handler requests none, so at most
\* one animation-frame callback is pending, exactly one between handlers once
\* the loop has started, none while a tick runs, and a key handler starts
\* only between whole ticks, with the next tick still waiting.
C19_SerializedTicks ==
  /\ [](/\ pending \in {0, 1}
        /\ (pc = 0 /\ listening) => pending = 1
        /\ (pc > 0 /\ caller = "animate") => pending = 0
        /\ (pc > 0 /\ caller = "key") => pending = 1
        /\ pc > 0 => caller \in {"animate", "key"})
  /\ [][/\ (pc = 0 /\ pc' > 0) => (caller' = "key" => pending' = pending)
        /\ (pc > 0 /\ caller = "key") => pending' = pending
        /\ (pc > 0 /\ caller = "animate") =>
              pending' = (IF pc' = 0 THEN 1 ELSE 0)
        /\ (pc > 0 /\ pc' > 0) => (pc' = pc + 1 /\ caller' = caller)]_vars

\* a key handler's pass is under way between two ticks: one tick has run,
\* the next is pending
C19_Witness ==
  /\ caller = "key"
  /\ InDraw("render")
  /\ DrawProg[pc].node = "rotor"
  /\ pending = 1
  /\ joint.rotor # 0

\* C20: within draw() the stack holds at least one element at every top(),
\* the one inside renderCube included, and at every pop(), so no stack
\* underflow warning is ever logged.
C20_NoUnderflowInDraw ==
  /\ (InDraw("render") \/ InDraw("pop")) => s.t >= 1
  /\ (InDraw("push") /\ DrawProg[pc].node # "turbine") => s.t >= 1
  /\ ~Logged(UnderflowWarning)

\* the last s.pop() of a pass is about to run on a stack of depth 1, after
\* key commands and ticks
C20_Witness ==
  /\ InDraw("pop")
  /\ DrawProg[pc].node = "turbine"
  /\ s.t = 1
  /\ nPop = 4
  /\ joint.generator # 0
  /\ joint.rotor # 0
  /\ warnings = <<>>

RECURSIVE Pow(_, _)
Pow(b, n) == IF n = 0 THEN 1 ELSE b * Pow(b, n - 1)

\* the factors scaleMoinho has multiplied into a shape transform, after the
\* setScale it was built with
Scalings(m) == SubSeq(m, 2, Len(m))

RECURSIVE FactorProduct(_)
\* the product of uniform scale factors, in tenths to the power of their number
FactorProduct(fs) ==
  IF fs = <<>> THEN 1 ELSE fs[1].x * FactorProduct(SubSeq(fs, 2, Len(fs)))

Uniform(f) == f.k = "S" /\ f.x = f.y /\ f.y = f.z

\* C21: ArrowUp and ArrowDown multiply the shape transform of all five
\* parts by the same factor, 1.1 or 0.9, and change no joint angle, joint
\* matrix, speed, direction or animation flag; after u ArrowUp and d
\* ArrowDown presses every part carries the cumulative factor
\* 1.1^u * 0.9^d, which is 0.99, not 1, after one press of each.
C21_ScaleAssembly ==
  /\ [](\A node \in Node :
          /\ Scalings(localMatrixOf(node)) = Scalings(turbineMatrixLocal)
          /\ Len(Scalings(localMatrixOf(node))) = nUp + nDown
          /\ \A i \in 1 .. nUp + nDown : Uniform(Scalings(localMatrixOf(node))[i])
          /\ FactorProduct(Scalings(localMatrixOf(node)))
               = Pow(ScaleUp, nUp) * Pow(ScaleDown, nDown)
          /\ (nUp = 1 /\ nDown = 1) =>
               /\ FactorProduct(Scalings(localMatrixOf(node))) = 99
               /\ FactorProduct(Scalings(localMatrixOf(node))) # Pow(10, 2))
  /\ [][(pc = 0 /\ ev' \in {"ArrowUp", "ArrowDown"}) =>
          /\ UNCHANGED <<joint, jointMatrices, rotSpeed, rotDir, rotAnim>>
          /\ \A node \in Node : localMatrixOf(node)[1]' = localMatrixOf(node)[1]]_vars

\* ArrowUp and then ArrowDown have been handled and the second pass is over
C21_Witness ==
  /\ nUp = 1
  /\ nDown = 1
  /\ pc = 0
  /\ Len(frame) = 5
  /\ Len(bladeMatrixLocal) = 3
  /\ bladeMatrixLocal[2].x = ScaleUp
  /\ bladeMatrixLocal[3].x = ScaleDown

Pivots == {0, 1, 2, 5}

Elements(q) == {q[i] : i \in 1 .. Len(q)}

\* C23: cindex is always one of 0, 1, 2, 5: only the keys r, g, b, w change
\* it, any other key leaves cindex and click unchanged; for each such pivot
\* getRotatingCorners returns exactly the three other members of
\* {0, 1, 2, 5}, so the collision test of a frame always has a corner list.
C23_PivotAndCorners ==
  /\ [](/\ cindex \in Pivots
        /\ getRotatingCorners(cindex) # NoCorners
        /\ Len(getRotatingCorners(cindex)) = 3
        /\ Elements(getRotatingCorners(cindex)) = Pivots \ {cindex})
  /\ [][/\ sqKey' = "other" => (cindex' = cindex /\ click' = click)
        /\ cindex' # cindex => (sqKey' \in {"r", "g", "b", "w"} /\ click')]_vars

\* the white corner is the pivot and a frame has run since the key
C23_Witness ==
  /\ cindex = 5
  /\ sqKey = "none"
  /\ moved
  /\ ~click
  /\ getRotatingCorners(cindex) = <<1, 2, 0>>

NothingRendered == ~lastDraw.skybox /\ ~lastDraw.teapot

\* C22: the cubemap texture is created exactly once, by the onload of the
\* sixth face image to finish, whatever the order of the six; until then
\* every draw(), from init, a key, the reset button or the rotator, renders
\* neither the skybox nor the reflective object, and the sixth load starts
\* exactly one draw.
C22_CubemapOnSixthLoad ==
  /\ [](/\ ct = Cardinality(loadedImgs)
        /\ nTextures = (IF ct = NumFaces THEN 1 ELSE 0)
        /\ nLoadDraws = nTextures
        /\ texID # "undefined" <=> ct = NumFaces
        /\ ct < NumFaces => NothingRendered
        /\ (lastDraw.skybox \/ lastDraw.teapot) => texID = "texture")
  /\ [][/\ texID' # texID => (ct = NumFaces - 1 /\ ct' = NumFaces)
        /\ (ct = NumFaces - 1 /\ ct' = NumFaces) =>
              (lastDraw'.by = "load" /\ nLoadDraws' = nLoadDraws + 1)
        /\ lastDraw'.by = "load" => ct' = NumFaces]_vars

\* five images have loaded, the first face not among them, and a key has
\* drawn nothing
C22_Witness ==
  /\ ct = NumFaces - 1
  /\ 0 \notin loadedImgs
  /\ lastDraw.by = "key"
  /\ rotY = TiltStep
  /\ NothingRendered
  /\ texID = "undefined"

====
